---- MODULE Spec2Model ----
(***************************************************************************)
(* A model of github.com/eaburns/pretty: the text renderer pretty.Fprint   *)
(* (src/pretty.go), and the path/seen variant of package pp, pp.Print and  *)
(* pp.Dot (src/unnamed/part_001).                                          *)
(*                                                                         *)
(* A reflect.Value is a node of a value graph.  Two reflect.Values are the *)
(* same map key exactly when they are the same node: a record, each of its *)
(* member locations, a pointer handed to the entry point and a by-value    *)
(* copy of a record are all different nodes.  Every write to the io.Writer *)
(* is one token of the output, and the sink may reject any write.  The     *)
(* recursion of print and dot is an explicit stack of frames; a panic      *)
(* unwinds it frame by frame, running each frame's deferred function.      *)
(***************************************************************************)
EXTENDS Integers, Sequences, FiniteSets

\* ------------------------------------------------------------------ bounds
\* Members of a record handed to the renderers (Records).
MaxFields == 3
\* Records / slices linked by pointers (Linked), interface cells (Cells).
NumObjs == 2
\* Keys of a map handed to the renderers (Maps).
MaxKeys == 3

\* ------------------------------------------------------------ value graphs
Leaf(k) == [kind |-> k, kids |-> <<>>, exp |-> <<>>, cap |-> "none", keys |-> <<>>]
IntV == Leaf("Int")
NilV == Leaf("Nil")
RefTo(j) == [kind |-> "Ref", kids |-> <<j>>, exp |-> <<>>, cap |-> "none", keys |-> <<>>]
StructOf(ks, ex) == [kind |-> "Struct", kids |-> ks, exp |-> ex, cap |-> "none", keys |-> <<>>]
SeqOf(ks) == [kind |-> "Seq", kids |-> ks, exp |-> <<>>, cap |-> "none", keys |-> <<>>]
MapOf(keys, ks) == [kind |-> "Map", kids |-> ks, exp |-> <<>>, cap |-> "none", keys |-> keys]
\* A value whose type has the custom-format method (PrettyPrint / String).
\* The method returns its string ("str"), or panics with an error value
\* ("err") or with a value that is no error ("val").
WithCap(nd, c) == [nd EXCEPT !.cap = c]

SeqsUpTo(S, n) == UNION {[1..m -> S] : m \in 0..n}

\* A record T passed by value: member k is hidden ("hid"), an int, a nil
\* pointer, an empty record, or a record with the custom-format method
\* ("cust": the method returns, "bad": it panics with an error).
\* Node 1 is the record, node 1+k its k-th member, node 1+m+k the member of
\* a custom-format member.
MemberKinds == {"hid", "int", "nil", "emp", "cust", "bad"}
MemberNode(mk, inner) ==
    CASE mk = "nil" -> NilV
      [] mk = "emp" -> StructOf(<<>>, <<>>)
      [] mk = "cust" -> WithCap(StructOf(<<inner>>, <<TRUE>>), "str")
      [] mk = "bad" -> WithCap(StructOf(<<inner>>, <<TRUE>>), "err")
      [] OTHER -> IntV
RecordHeap(ms) ==
    LET m == Len(ms)
    IN  [x \in 1..(1 + 2 * m) |->
            IF x = 1 THEN StructOf([k \in 1..m |-> 1 + k], [k \in 1..m |-> ms[k] # "hid"])
            ELSE IF x <= 1 + m THEN MemberNode(ms[x - 1], m + x)
            ELSE IntV]
Records == {[heap |-> RecordHeap(ms), root |-> 1] : ms \in SeqsUpTo(MemberKinds, MaxFields)}

\* NumObjs objects of type T struct{X *T} (ok = "Struct") or type T []*T
\* with one element (ok = "Seq"), linked by px (0: nil); with py # 0 the
\* first object has a second member Y (a second element) pointing to py.
\* Object i is node i, its locations X and Y are nodes n+i and 2n+i.  Node 3n+1 is the pointer
\* &obj1 handed to the entry point, node 3n+2 the copy made when obj1 is
\* passed by value: a record copy has member locations of its own (3n+3,
\* 3n+4), a slice copy shares the elements of the original.
Ptr(t) == IF t = 0 THEN NilV ELSE RefTo(t)
Obj(ok, ks) == IF ok = "Struct" THEN StructOf(ks, [k \in DOMAIN ks |-> TRUE]) ELSE SeqOf(ks)
LinkedHeap(ok, px, py) ==
    LET n == NumObjs
    IN  [x \in 1..(3 * n + 4) |->
            IF x <= n THEN Obj(ok, IF x = 1 /\ py # 0 THEN <<n + x, 2 * n + x>> ELSE <<n + x>>)
            ELSE IF x <= 2 * n THEN Ptr(px[x - n])
            ELSE IF x <= 3 * n THEN Ptr(IF x = 2 * n + 1 THEN py ELSE 0)
            ELSE IF x = 3 * n + 1 THEN RefTo(1)
            ELSE IF x = 3 * n + 2
                 THEN LET a == IF ok = "Struct" THEN 3 * n + 3 ELSE n + 1
                          b == IF ok = "Struct" THEN 3 * n + 4 ELSE 2 * n + 1
                      IN  Obj(ok, IF py # 0 THEN <<a, b>> ELSE <<a>>)
            ELSE IF x = 3 * n + 3 THEN Ptr(px[1])
            ELSE Ptr(py)]
Linked ==
    {[heap |-> LinkedHeap(ok, px, py), root |-> r] :
        ok \in {"Struct", "Seq"}, px \in [1..NumObjs -> 0..NumObjs],
        py \in 0..NumObjs, r \in {3 * NumObjs + 1, 3 * NumObjs + 2}}

\* NumObjs variables of type interface{} (or of type P with type P *P), each
\* nil or holding a pointer to one of them: var i interface{}; i = &i.
\* Node i is the pointer to cell i, node n+i the cell.
CellHeap(held) ==
    LET n == NumObjs
    IN  [x \in 1..(2 * n) |-> IF x <= n THEN RefTo(n + x) ELSE Ptr(held[x - n])]
Cells == {[heap |-> CellHeap(held), root |-> 1] : held \in [1..NumObjs -> 0..NumObjs]}

\* A map with integer keys, given in the order the entries were inserted.
\* Node 1 is the map, node 1+k the value stored under key k.
Injective(s) == \A i, j \in DOMAIN s : s[i] = s[j] => i = j
MapHeap(ks) ==
    [x \in 1..(1 + MaxKeys) |->
        IF x = 1 THEN MapOf(ks, [i \in DOMAIN ks |-> 1 + ks[i]]) ELSE IntV]
Maps == {[heap |-> MapHeap(ks), root |-> 1] : ks \in {s \in SeqsUpTo(1..MaxKeys, MaxKeys) : Injective(s)}}

\* A single value: an int, a nil pointer, a value with the custom-format
\* method, or no value at all (a nil interface: reflect.ValueOf(nil), the
\* invalid Value, node 0).
Atoms ==
    {[heap |-> <<a>>, root |-> 1] :
        a \in {IntV, NilV, WithCap(NilV, "str")} \cup {WithCap(IntV, c) : c \in {"str", "err", "val"}}}
        \cup {[heap |-> <<IntV>>, root |-> 0]}

Inputs == Records \cup Linked \cup Cells \cup Maps \cup Atoms

\* ------------------------------------------------------------------- state
VARIABLES
    heap,      \* the value graph the caller built (read-only during a call)
    root,      \* reflect.ValueOf(v) of the argument v (0: the invalid Value)
    api,       \* the entry point called: "Fprint", "Print" or "Dot"
    status,    \* idle, running, closing, panicking, returned, panicked, overflow
    stack,     \* the active invocations of print / dot, outermost first
    path,      \* print's path map[reflect.Value]bool
    seen,      \* dot's seen map[reflect.Value]int (Absent: no entry)
    ret,       \* the results (nd, next) of the dot invocation that returned last
    out,       \* the writes the sink accepted during this call
    nwrites,   \* the writes attempted during this call
    failedAt,  \* the number of the write the sink rejected (0: none)
    panicv,    \* the value of the panic in flight, or of the one that escaped
    err,       \* the error the entry point returned
    second,    \* this is the second call in succession on the same value
    prevOut    \* the output of the first call

vars == <<heap, root, api, status, stack, path, seen, ret, out, nwrites, failedAt,
          panicv, err, second, prevOut>>

Nodes == DOMAIN heap
\* The keys a map can hold: every value of the graph and the invalid Value.
Keys == Nodes \cup {0}

\* indent strings: k stands for "\n" followed by k tabs, NoIndent for "".
NoIndent == -1
\* seen[v] of a value with no entry.
Absent == -1

\* v.Kind()
Kind(v) == IF v = 0 THEN "Invalid" ELSE heap[v].kind

\* What a panic can carry.  The first three are error values.
IsError(r) == r \in {"EIO", "ValueError", "MethodErr"}

\* One write to the sink: tag t, numbers x, y, a label and the value it is for.
Tok(t, x, y, lab, v) == [t |-> t, x |-> x, y |-> y, z |-> 0, lab |-> lab, v |-> v]

Frame(v, ind, n) ==
    [v |-> v, ind |-> ind, pc |-> "enter", i |-> 1, dfr |-> FALSE,
     u |-> FALSE, e |-> FALSE, n |-> n, next |-> n]

Top == stack[Len(stack)]
Pop == SubSeq(stack, 1, Len(stack) - 1)
SetTop(f) == [stack EXCEPT ![Len(stack)] = f]

\* The goroutine's stack is finite; the Go runtime aborts the process when
\* the recursion exhausts it.  No terminating traversal nests deeper than the
\* number of values plus one: nested invocations past the cycle / seen check
\* are on different values unless the traversal repeats itself.
StackLimit == Cardinality(Nodes) + 2

\* ------------------------------------------------------------- the sink
Accept(tok) ==
    /\ out' = Append(out, tok)
    /\ nwrites' = nwrites + 1
    /\ UNCHANGED <<failedAt, panicv>>

\* pr, node and arc panic with the error of a failed write.
Reject ==
    /\ nwrites' = nwrites + 1
    /\ failedAt' = nwrites + 1
    /\ panicv' = "EIO"
    /\ status' = "panicking"
    /\ UNCHANGED out

\* A call of print or dot from the frames stk.
Call(stk, f) ==
    IF Len(stk) >= StackLimit
    THEN stack' = stk /\ status' = "overflow"
    ELSE stack' = Append(stk, f) /\ status' = "running"

\* ------------------------------------------------------ pretty.go, pp.Print
TextApis == {"Fprint", "Print"}
InPrint == status = "running" /\ api \in TextApis
Entering == Top.pc = "enter"

\* The cycle check left out.
OnPathNever(p, v) == FALSE
\* path[v]
OnPath(p, v) == p[v]
\* path[v] = true
Mark(p, v) == [p EXCEPT ![v] = TRUE]
\* The deferred function left out.
UnmarkNever(p, v) == p
\* defer func() { path[v] = false }()
Unmark(p, v) == [p EXCEPT ![v] = FALSE]

\* The type assertion left out.
HasMethodNever(v) == FALSE
\* v.Interface().(PrettyPrinter) / v.Interface().(fmt.Stringer)
HasMethod(v) == v # 0 /\ heap[v].cap # "none"

\* print returns to its caller; the outermost print returns to the entry
\* point, which returns err, still nil.
Returned(stk) == IF stk = <<>> THEN "returned" ELSE "running"

\* A print invocation that has marked v writes tok and returns.
WriteAndReturn(tok) ==
    \/ /\ Accept(tok)
       /\ stack' = Pop
       /\ path' = Unmark(Mark(path, Top.v), Top.v)
       /\ status' = Returned(Pop)
    \/ /\ Reject
       /\ stack' = SetTop([Top EXCEPT !.dfr = TRUE])
       /\ path' = Mark(path, Top.v)

Kept == /\ UNCHANGED <<heap, root, api, seen, ret, err, second, prevOut>>

\* if !v.IsValid() { pr(out, "nil"); return }
PrintInvalid ==
    /\ InPrint /\ Entering /\ Top.v = 0
    /\ \/ Accept(Tok("nil", 0, 0, "", 0)) /\ stack' = Pop /\ status' = Returned(Pop)
       \/ Reject /\ UNCHANGED stack
    /\ UNCHANGED path
    /\ Kept

\* if path[v] { pr(out, "<cycle>"); return }
PrintCycle ==
    /\ InPrint /\ Entering /\ Top.v # 0 /\ OnPath(path, Top.v)
    /\ \/ Accept(Tok("cycle", 0, 0, "", Top.v)) /\ stack' = Pop /\ status' = Returned(Pop)
       \/ Reject /\ UNCHANGED stack
    /\ UNCHANGED path
    /\ Kept

\* The value is valid, not on the path, and is handled by its kind.
ByKind(ks) ==
    /\ InPrint /\ Entering /\ Top.v # 0 /\ ~OnPath(path, Top.v)
    /\ ~HasMethod(Top.v)
    /\ Kind(Top.v) \in ks

\* The method of v panics when called.
Panics(v) == heap[v].cap \in {"err", "val"}

\* The method returns its string: pr(out, "%s", pper.PrettyPrint()).
PrintCustom ==
    /\ InPrint /\ Entering /\ Top.v # 0 /\ ~OnPath(path, Top.v)
    /\ HasMethod(Top.v) /\ ~Panics(Top.v)
    /\ WriteAndReturn(Tok("custom", 0, 0, "", Top.v))
    /\ Kept

\* The method panics.  PrettyPrint is called by print, so the panic unwinds
\* print; String is called by fmt.Fprintf, which recovers the panic and
\* writes "%!s(PANIC=String method: ...)" in place of the string.
PrintCustomPanic ==
    /\ InPrint /\ Entering /\ Top.v # 0 /\ ~OnPath(path, Top.v)
    /\ HasMethod(Top.v) /\ Panics(Top.v)
    /\ \/ /\ api = "Fprint"
          /\ panicv' = IF heap[Top.v].cap = "err" THEN "MethodErr" ELSE "MethodVal"
          /\ status' = "panicking"
          /\ stack' = SetTop([Top EXCEPT !.dfr = TRUE])
          /\ path' = Mark(path, Top.v)
          /\ UNCHANGED <<out, nwrites, failedAt>>
       \/ /\ api = "Print"
          /\ WriteAndReturn(Tok("fmtpanic", 0, 0, "", Top.v))
    /\ Kept

LeafTag(k) == CASE k = "Int" -> "int" [] k = "Nil" -> "nil" [] k = "Map" -> "map"

\* Bool..Complex, String: pr(out, "%d", v.Int()); a nil pointer or
\* interface: pr(out, "nil"); reflect.Map: pr(out, "<map>").
PrintLeaf ==
    /\ ByKind({"Int", "Nil", "Map"})
    /\ WriteAndReturn(Tok(LeafTag(Kind(Top.v)), 0, 0, "", Top.v))
    /\ Kept

\* reflect.Interface, reflect.Ptr, not nil: print(out, path, indent, v.Elem())
PrintRefCall ==
    /\ ByKind({"Ref"})
    /\ path' = Mark(path, Top.v)
    /\ Call(SetTop([Top EXCEPT !.dfr = TRUE, !.pc = "ret"]),
            Frame(heap[Top.v].kids[1], Top.ind, 0))
    /\ UNCHANGED <<out, nwrites, failedAt, panicv>>
    /\ Kept

PrintRefReturn ==
    /\ InPrint /\ Top.pc = "ret"
    /\ stack' = Pop
    /\ path' = Unmark(path, Top.v)
    /\ status' = Returned(Pop)
    /\ UNCHANGED <<out, nwrites, failedAt, panicv>>
    /\ Kept

\* reflect.Array, reflect.Slice: pr(out, "[")
PrintSeqOpen ==
    /\ ByKind({"Seq"})
    /\ path' = Mark(path, Top.v)
    /\ stack' = SetTop([Top EXCEPT !.dfr = TRUE, !.pc = "loop"])
    /\ \/ Accept(Tok("[", 0, 0, "", Top.v)) /\ UNCHANGED status
       \/ Reject
    /\ Kept

\* pr(out, indent2); print(out, path, indent2, v.Index(i))
PrintSeqElem ==
    /\ InPrint /\ Top.pc = "loop" /\ Kind(Top.v) = "Seq"
    /\ Top.i <= Len(heap[Top.v].kids)
    /\ \/ /\ Accept(Tok("indent", Top.ind + 1, 0, "", Top.v))
          /\ Call(SetTop([Top EXCEPT !.i = @ + 1]),
                  Frame(heap[Top.v].kids[Top.i], Top.ind + 1, 0))
       \/ Reject /\ UNCHANGED stack
    /\ UNCHANGED path
    /\ Kept

\* pr(out, indent+"]")
PrintSeqClose ==
    /\ InPrint /\ Top.pc = "loop" /\ Kind(Top.v) = "Seq"
    /\ Top.i > Len(heap[Top.v].kids)
    /\ \/ Accept(Tok("]", Top.ind, 0, "", Top.v))
          /\ stack' = Pop /\ path' = Unmark(path, Top.v) /\ status' = Returned(Pop)
       \/ Reject /\ UNCHANGED <<stack, path>>
    /\ Kept

\* exported(&f) / exported(f.Name) of member j of record v
Exported(v, j) == heap[v].exp[j]
\* The members the loop passes over from i on, up to the next exported one.
NextVisible(v, i) ==
    LET S == {j \in i..Len(heap[v].kids) : Exported(v, j)}
    IN  IF S = {} THEN 0 ELSE CHOOSE j \in S : \A k \in S : j <= k
HiddenIn(v, i, j) == \E k \in i..j : ~Exported(v, k)

\* u after the loop of printStruct: an unexported member was passed over.
\* Package pp has no such flag.
SawHidden(f) == api = "Fprint" /\ (f.u \/ HiddenIn(f.v, f.i, Len(heap[f.v].kids)))
\* if !e { indent = ""; indent2 = "" }
EllipsisIndent(f) == IF f.e THEN f.ind + 1 ELSE NoIndent
\* The closing brace always on a line of its own.
CloseIndentAlways(f) == f.ind
CloseIndent(f) == IF api = "Fprint" /\ ~f.e THEN NoIndent ELSE f.ind

\* reflect.Struct: pr(out, "%s {", t.Name())
PrintStructOpen ==
    /\ ByKind({"Struct"})
    /\ path' = Mark(path, Top.v)
    /\ stack' = SetTop([Top EXCEPT !.dfr = TRUE, !.pc = "loop"])
    /\ \/ Accept(Tok("open", 0, 0, "", Top.v)) /\ UNCHANGED status
       \/ Reject
    /\ Kept

\* The loop up to and including the next exported member:
\* pr(out, "%s%s: ", indent2, f.Name); print(out, path, indent2, v.Field(i))
PrintField ==
    /\ InPrint /\ Top.pc = "loop" /\ Kind(Top.v) = "Struct"
    /\ NextVisible(Top.v, Top.i) # 0
    /\ LET j == NextVisible(Top.v, Top.i)
           f == [Top EXCEPT !.i = j + 1,
                            !.u = (api = "Fprint" /\ (@ \/ HiddenIn(Top.v, Top.i, j - 1))),
                            !.e = (api = "Fprint")]
       IN  \/ /\ Accept(Tok("field", Top.ind + 1, j, "", Top.v))
              /\ Call(SetTop(f), Frame(heap[Top.v].kids[j], Top.ind + 1, 0))
           \/ Reject /\ stack' = SetTop(f)
    /\ UNCHANGED path
    /\ Kept

\* if u { pr(out, "%s…", indent2) }
PrintEllipsis ==
    /\ InPrint /\ Top.pc = "loop" /\ Kind(Top.v) = "Struct"
    /\ NextVisible(Top.v, Top.i) = 0
    /\ SawHidden(Top)
    /\ stack' = SetTop([Top EXCEPT !.pc = "close", !.u = TRUE])
    /\ \/ Accept(Tok("ellipsis", EllipsisIndent(Top), 0, "", Top.v)) /\ UNCHANGED status
       \/ Reject
    /\ UNCHANGED path
    /\ Kept

\* pr(out, "%s}", indent)
PrintStructClose ==
    /\ InPrint /\ Kind(Top.v) = "Struct"
    /\ \/ Top.pc = "close"
       \/ Top.pc = "loop" /\ NextVisible(Top.v, Top.i) = 0 /\ ~SawHidden(Top)
    /\ \/ Accept(Tok("close", CloseIndent(Top), 0, "", Top.v))
          /\ stack' = Pop /\ path' = Unmark(path, Top.v) /\ status' = Returned(Pop)
       \/ Reject /\ UNCHANGED <<stack, path>>
    /\ Kept

\* ------------------------------------------------------- the entry points
\* A call starts from rest, or right after a first call that succeeded (the
\* caller renders the same value again into an empty sink).
CanCall(a) ==
    \/ status = "idle"
    \/ status = "returned" /\ err = "nil" /\ ~second /\ api = a

NewCall(a) ==
    /\ api' = a
    /\ second' = (status # "idle")
    /\ prevOut' = IF status = "idle" THEN <<>> ELSE out
    /\ panicv' = "none"
    /\ ret' = <<0, 0>>
    /\ UNCHANGED <<heap, root>>

\* make(map[reflect.Value]bool)
NewPath == [v \in Keys |-> FALSE]
\* make(map[reflect.Value]int)
NewSeen == [v \in Keys |-> Absent]

\* pretty.Fprint: print(out, make(map[reflect.Value]bool), "\n", reflect.ValueOf(v))
Fprint ==
    /\ CanCall("Fprint")
    /\ NewCall("Fprint")
    /\ path' = NewPath
    /\ stack' = <<Frame(root, 0, 0)>>
    /\ status' = "running"
    /\ out' = <<>> /\ nwrites' = 0 /\ failedAt' = 0
    /\ err' = "nil"
    /\ UNCHANGED seen

\* pp.Print
PpPrint ==
    /\ CanCall("Print")
    /\ NewCall("Print")
    /\ path' = NewPath
    /\ stack' = <<Frame(root, 0, 0)>>
    /\ status' = "running"
    /\ out' = <<>> /\ nwrites' = 0 /\ failedAt' = 0
    /\ err' = "nil"
    /\ UNCHANGED seen

\* A panic leaves the top invocation, running its deferred function:
\* print's path[v] = false, dot's seen[v] = nd with nd not yet assigned.
Unwind ==
    /\ status = "panicking" /\ stack # <<>>
    /\ stack' = Pop
    /\ path' = IF api \in TextApis /\ Top.dfr THEN Unmark(path, Top.v) ELSE path
    /\ seen' = IF api = "Dot" /\ Top.dfr THEN [seen EXCEPT ![Top.v] = 0] ELSE seen
    /\ UNCHANGED <<heap, root, api, status, ret, out, nwrites, failedAt, panicv, err,
                   second, prevOut>>

\* The deferred function of Fprint, and recoverErr of package pp: an error
\* becomes the result; for any other value, panic(err) with err still nil.
Recover ==
    /\ status = "panicking" /\ stack = <<>>
    /\ IF IsError(panicv)
       THEN status' = "returned" /\ err' = panicv /\ UNCHANGED panicv
       ELSE status' = "panicked" /\ panicv' = "nil" /\ UNCHANGED err
    /\ UNCHANGED <<heap, root, api, stack, path, seen, ret, out, nwrites, failedAt,
                   second, prevOut>>

\* ----------------------------------------------------------------- pp.Dot
InDot == status = "running" /\ api = "Dot"

\* The lookup left out.
SeenNever(sn, v) == FALSE
\* m, ok := seen[v]
Seen(sn, v) == sn[v] # Absent
\* seen[v] = n, and the deferred seen[v] = nd
See(sn, v, n) == [sn EXCEPT ![v] = n]

\* "\tn%d [label=%s]\n": the declaration of node n for value v
NodeTok(n, lab, v) == Tok("node", n, 0, lab, v)
\* "\tn%d -> n%d [label=%s]\n" for member j of record v, labelled with the
\* member's name; "\tn%d -> n%d\n" for element j of sequence v.
ArcTok(src, dst, j, v) ==
    [t |-> "arc", x |-> src, y |-> dst, z |-> j,
     lab |-> IF Kind(v) = "Struct" THEN "name" ELSE "", v |-> v]

\* dot returns to its caller; the outermost dot returns to Dot, which goes
\* on to write the closing brace.
DotReturned(stk) == IF stk = <<>> THEN "closing" ELSE "running"

\* return node(out, n, ...), then the deferred seen[v] = nd
NodeAndReturn(lab) ==
    \/ /\ Accept(NodeTok(Top.n, lab, Top.v))
       /\ stack' = Pop
       /\ seen' = See(seen, Top.v, Top.n)
       /\ ret' = <<Top.n, Top.n + 1>>
       /\ status' = DotReturned(Pop)
    \/ /\ Reject
       /\ stack' = SetTop([Top EXCEPT !.dfr = TRUE])
       /\ UNCHANGED <<seen, ret>>

DotKept == UNCHANGED <<heap, root, api, path, err, second, prevOut>>

\* io.WriteString(out, "digraph {\n"), then
\* dot(out, make(map[reflect.Value]int), 0, reflect.ValueOf(v))
Dot ==
    /\ CanCall("Dot")
    /\ NewCall("Dot")
    /\ seen' = NewSeen
    /\ nwrites' = 1
    /\ \/ /\ out' = <<Tok("digraph", 0, 0, "", 0)>>
          /\ failedAt' = 0
          /\ err' = "nil"
          /\ stack' = <<Frame(root, 0, 0)>>
          /\ status' = "running"
       \/ /\ out' = <<>>
          /\ failedAt' = 1
          /\ err' = "EIO"
          /\ stack' = <<>>
          /\ status' = "returned"
    /\ UNCHANGED path

\* A value found in the map taking an id of its own: return m, n + 1.
DotSeenAdvances ==
    /\ InDot /\ Entering /\ Seen(seen, Top.v)
    /\ stack' = Pop
    /\ ret' = <<seen[Top.v], Top.n + 1>>
    /\ status' = DotReturned(Pop)
    /\ UNCHANGED <<seen, out, nwrites, failedAt, panicv>>
    /\ DotKept

\* if m, ok := seen[v]; ok { return m, n }
DotSeen ==
    /\ InDot /\ Entering /\ Seen(seen, Top.v)
    /\ stack' = Pop
    /\ ret' = <<seen[Top.v], Top.n>>
    /\ status' = DotReturned(Pop)
    /\ UNCHANGED <<seen, out, nwrites, failedAt, panicv>>
    /\ DotKept

\* v.Interface() of the invalid Value panics with a *reflect.ValueError.
DotInvalid ==
    /\ InDot /\ Entering /\ ~Seen(seen, Top.v) /\ Top.v = 0
    /\ stack' = SetTop([Top EXCEPT !.dfr = TRUE])
    /\ panicv' = "ValueError"
    /\ status' = "panicking"
    /\ UNCHANGED <<seen, ret, out, nwrites, failedAt>>
    /\ DotKept

DotByKind(ks) ==
    /\ InDot /\ Entering /\ ~Seen(seen, Top.v) /\ Top.v # 0
    /\ ~HasMethod(Top.v)
    /\ Kind(Top.v) \in ks

\* return node(out, n, "%s", strer): fmt.Sprintf calls String, and writes
\* "%!s(PANIC=String method: ...)" as the string when String panics.
DotCustom ==
    /\ InDot /\ Entering /\ ~Seen(seen, Top.v) /\ Top.v # 0
    /\ HasMethod(Top.v)
    /\ NodeAndReturn(IF Panics(Top.v) THEN "fmtpanic" ELSE "custom")
    /\ DotKept

DotLeaf ==
    /\ DotByKind({"Int", "Nil", "Map"})
    /\ NodeAndReturn(LeafTag(Kind(Top.v)))
    /\ DotKept

\* reflect.Interface, reflect.Ptr, not nil: return dot(out, seen, n, v.Elem())
DotRefCall ==
    /\ DotByKind({"Ref"})
    /\ Call(SetTop([Top EXCEPT !.dfr = TRUE, !.pc = "ret"]),
            Frame(heap[Top.v].kids[1], 0, Top.n))
    /\ UNCHANGED <<seen, ret, out, nwrites, failedAt, panicv>>
    /\ DotKept

\* The results of the inner dot are the results; deferred: seen[v] = nd.
DotRefReturn ==
    /\ InDot /\ Top.pc = "ret"
    /\ stack' = Pop
    /\ seen' = See(seen, Top.v, ret[1])
    /\ status' = DotReturned(Pop)
    /\ UNCHANGED <<ret, out, nwrites, failedAt, panicv>>
    /\ DotKept

\* reflect.Array, reflect.Slice, reflect.Struct:
\* _, next := node(out, n, ...); seen[v] = n
DotOpen ==
    /\ DotByKind({"Struct", "Seq"})
    /\ \/ /\ Accept(NodeTok(Top.n, Kind(Top.v), Top.v))
          /\ stack' = SetTop([Top EXCEPT !.dfr = TRUE, !.pc = "loop", !.next = Top.n + 1])
          /\ seen' = See(seen, Top.v, Top.n)
          /\ UNCHANGED status
       \/ /\ Reject
          /\ stack' = SetTop([Top EXCEPT !.dfr = TRUE])
          /\ UNCHANGED seen
    /\ UNCHANGED ret
    /\ DotKept

\* The next child the loop visits: every element of a sequence, every
\* exported member of a record.
NextChild(v, i) ==
    IF Kind(v) = "Seq"
    THEN IF i <= Len(heap[v].kids) THEN i ELSE 0
    ELSE NextVisible(v, i)

\* m, next = dot(out, seen, next, v.Field(i))
DotChild ==
    /\ InDot /\ Top.pc = "loop" /\ NextChild(Top.v, Top.i) # 0
    /\ LET j == NextChild(Top.v, Top.i)
       IN  Call(SetTop([Top EXCEPT !.i = j, !.pc = "arc"]),
                Frame(heap[Top.v].kids[j], 0, Top.next))
    /\ UNCHANGED <<seen, ret, out, nwrites, failedAt, panicv>>
    /\ DotKept

\* arc(out, n, m, f.Name) / arc(out, n, m, "")
DotArc ==
    /\ InDot /\ Top.pc = "arc"
    /\ stack' = SetTop([Top EXCEPT !.i = @ + 1, !.pc = "loop", !.next = ret[2]])
    /\ \/ Accept(ArcTok(Top.n, ret[1], Top.i, Top.v))
          /\ UNCHANGED status
       \/ Reject
    /\ UNCHANGED <<seen, ret>>
    /\ DotKept

\* return n, next, then the deferred seen[v] = nd
DotEnd ==
    /\ InDot /\ Top.pc = "loop" /\ NextChild(Top.v, Top.i) = 0
    /\ stack' = Pop
    /\ ret' = <<Top.n, Top.next>>
    /\ seen' = See(seen, Top.v, Top.n)
    /\ status' = DotReturned(Pop)
    /\ UNCHANGED <<out, nwrites, failedAt, panicv>>
    /\ DotKept

\* _, err = io.WriteString(out, "}"); return err
DotClose ==
    /\ status = "closing"
    /\ nwrites' = nwrites + 1
    /\ status' = "returned"
    /\ \/ out' = Append(out, Tok("}", 0, 0, "", 0)) /\ UNCHANGED <<failedAt, err>>
       \/ failedAt' = nwrites + 1 /\ err' = "EIO" /\ UNCHANGED out
    /\ UNCHANGED <<heap, root, api, stack, path, seen, ret, panicv, second, prevOut>>

\* ------------------------------------------------------- the specification
Init ==
    /\ \E inp \in Inputs : heap = inp.heap /\ root = inp.root
    /\ api = "none"
    /\ status = "idle"
    /\ stack = <<>>
    /\ path = NewPath
    /\ seen = NewSeen
    /\ ret = <<0, 0>>
    /\ out = <<>>
    /\ nwrites = 0
    /\ failedAt = 0
    /\ panicv = "none"
    /\ err = "nil"
    /\ second = FALSE
    /\ prevOut = <<>>

Next ==
    \/ Fprint \/ PpPrint \/ Dot
    \/ PrintInvalid \/ PrintCycle \/ PrintCustom \/ PrintCustomPanic \/ PrintLeaf
    \/ PrintRefCall \/ PrintRefReturn
    \/ PrintSeqOpen \/ PrintSeqElem \/ PrintSeqClose
    \/ PrintStructOpen \/ PrintField \/ PrintEllipsis \/ PrintStructClose
    \/ DotSeen \/ DotInvalid \/ DotCustom \/ DotLeaf \/ DotRefCall \/ DotRefReturn
    \/ DotOpen \/ DotChild \/ DotArc \/ DotEnd \/ DotClose
    \/ Unwind \/ Recover

Spec == Init /\ [][Next]_vars

\* ------------------------------------------------------------ the results
Done == status \in {"returned", "panicked"}
\* The call returned a nil error and the sink rejected nothing.
Succeeded == status = "returned" /\ err = "nil" /\ failedAt = 0
InText == api \in TextApis
Active == status \in {"running", "panicking"}

\* The values of the invocations enclosing the innermost one.
Ancestors == {stack[k].v : k \in 1..(Len(stack) - 1)}

\* The writes that begin the rendering of a value, as <<tag, value>>.
VisitTags == {"nil", "cycle", "custom", "fmtpanic", "int", "map", "open", "["}
IsVisit(tok) == tok.t \in VisitTags
VisitsIn(o) ==
    LET sel == SelectSeq(o, IsVisit)
    IN  [i \in 1..Len(sel) |-> <<sel[i].t, sel[i].v>>]

\* The rendering of v below the ancestors anc, as the claim describes it: the
\* marker for an ancestor, the method's string for a value that has the
\* method, else the value in full, each child below anc and v.
RECURSIVE Rendering(_, _), RenderingAll(_, _, _)
Rendering(v, anc) ==
    IF v = 0 THEN <<(<<"nil", 0>>)>>
    ELSE IF v \in anc THEN <<(<<"cycle", v>>)>>
    ELSE IF HasMethod(v) THEN <<(<<IF Panics(v) THEN "fmtpanic" ELSE "custom", v>>)>>
    ELSE CASE Kind(v) = "Ref" -> Rendering(heap[v].kids[1], anc \cup {v})
           [] Kind(v) = "Struct" -> <<(<<"open", v>>)>> \o RenderingAll(v, 1, anc \cup {v})
           [] Kind(v) = "Seq" -> <<(<<"[", v>>)>> \o RenderingAll(v, 1, anc \cup {v})
           [] OTHER -> <<(<<LeafTag(Kind(v)), v>>)>>
RenderingAll(v, i, anc) ==
    IF i > Len(heap[v].kids) THEN <<>>
    ELSE (IF Kind(v) = "Struct" /\ ~heap[v].exp[i] THEN <<>> ELSE Rendering(heap[v].kids[i], anc))
         \o RenderingAll(v, i + 1, anc)

\* type T struct{ X *T }; var t T; t.X = &t
SelfHeap == LinkedHeap("Struct", [i \in 1..NumObjs |-> IF i = 1 THEN 1 ELSE 0], 0)
\* Print(&t) and Print(t)
ByPointer == 3 * NumObjs + 1
ByValue == 3 * NumObjs + 2
\* T { / X: <cycle> / }
SelfByPointerText ==
    <<Tok("open", 0, 0, "", 1), Tok("field", 1, 1, "", 1), Tok("cycle", 0, 0, "", 1),
      Tok("close", 0, 0, "", 1)>>
\* T { / X: T { / X: <cycle> / } / }
SelfByValueText ==
    <<Tok("open", 0, 0, "", ByValue), Tok("field", 1, 1, "", ByValue),
      Tok("open", 0, 0, "", 1), Tok("field", 2, 1, "", 1), Tok("cycle", 0, 0, "", 1),
      Tok("close", 1, 0, "", 1), Tok("close", 0, 0, "", ByValue)>>

\* C1: in the text renderers a value is rendered as <cycle> exactly when it
\* is the value of an enclosing invocation; the traversal does not descend
\* below the marker, and a value reached again from a sibling branch is
\* rendered in full.  A record whose pointer member points back to it is
\* rendered as T { X: <cycle> } through a pointer and with one more level of
\* T as a copy.
C1_CycleIffAncestor ==
    /\ (InPrint /\ Entering /\ Top.v # 0) => (path[Top.v] <=> Top.v \in Ancestors)
    /\ InText => \A j, k \in 1..Len(stack) : (j < k /\ stack[k].dfr) => stack[j].v # stack[k].v
    /\ (InText /\ Succeeded) => VisitsIn(out) = Rendering(root, {})
    /\ (InText /\ Succeeded /\ heap = SelfHeap /\ root = ByPointer) => out = SelfByPointerText
    /\ (InText /\ Succeeded /\ heap = SelfHeap /\ root = ByValue) => out = SelfByValueText

\* The copy of the self-referential record has been rendered, and so has a
\* record whose two members point to the same record.
C1_Witness ==
    /\ api = "Fprint" /\ Succeeded /\ heap = SelfHeap /\ root = ByValue
    /\ out = SelfByValueText

IsNode(tok) == tok.t = "node"
IsArc(tok) == tok.t = "arc"
NodesIn(o) == SelectSeq(o, IsNode)
\* The value a pointer or interface leads to.
RECURSIVE Target(_)
Target(v) == IF Kind(v) = "Ref" THEN Target(heap[v].kids[1]) ELSE v

\* C2: in one call of Dot no value is declared as a node twice; reaching a
\* value that is in the seen map declares nothing and leaves the counter of
\* node ids where it was (the counter always equals the number of nodes
\* declared), and every edge ends at the node declared for the child's
\* value.
C2_OneNodePerValue ==
    api = "Dot" =>
        /\ \A i, j \in 1..Len(out) :
              (IsNode(out[i]) /\ IsNode(out[j]) /\ out[i].v = out[j].v) => i = j
        /\ status = "running" =>
              Len(NodesIn(out)) = CASE Top.pc = "enter" -> Top.n
                                    [] Top.pc = "loop" -> Top.next
                                    [] OTHER -> ret[2]
        /\ \A i \in 1..Len(out) :
              IsArc(out[i]) =>
                  \E j \in 1..(i - 1) :
                      /\ IsNode(out[j])
                      /\ out[j].x = out[i].y
                      /\ out[j].v = Target(heap[out[i].v].kids[out[i].z])

\* Two members of one record led to the same value: two edges, one node.
C2_Witness ==
    /\ api = "Dot" /\ Succeeded
    /\ \E i, j \in 1..Len(out) :
          /\ IsArc(out[i]) /\ IsArc(out[j])
          /\ out[i].v = out[j].v /\ out[i].z # out[j].z /\ out[i].y = out[j].y
          /\ Kind(out[i].v) = "Struct"

\* The method of v returns a string.
Formats(v) == v # 0 /\ heap[v].cap = "str"
DotText(toks) == <<Tok("digraph", 0, 0, "", 0)>> \o toks \o <<Tok("}", 0, 0, "", 0)>>

\* C3: for a value whose custom-format method returns a string, every
\* renderer writes that string and nothing else, at the top and at every
\* depth: no write of a shape rule or of the cycle marker is made for it, and
\* no invocation is made for any of its members.
C3_MethodOverrides ==
    /\ \A i \in 1..Len(out) :
          Formats(out[i].v) =>
              \/ out[i].t = "custom"
              \/ IsNode(out[i]) /\ out[i].lab = "custom"
    /\ \A k \in 2..Len(stack) : ~Formats(stack[k - 1].v)
    /\ (Succeeded /\ Formats(root)) =>
          out = IF InText THEN <<Tok("custom", 0, 0, "", root)>>
                ELSE DotText(<<NodeTok(0, "custom", root)>>)

\* A member with the method has been rendered inside a record.
C3_Witness ==
    /\ Succeeded /\ Kind(root) = "Struct" /\ ~Formats(root)
    /\ \E i \in 1..Len(out) : out[i].t = "custom" /\ Formats(out[i].v)

\* No write follows a rejected one, and the call returns the error of the
\* rejected write.
WriteFailureSurfaces ==
    failedAt # 0 => /\ nwrites = failedAt
                    /\ status # "panicked"
                    /\ status = "returned" => err = "EIO"

\* C4: when the sink rejects the k-th write, k writes are attempted and the
\* call returns the error of that write; when no write fails, the call
\* returns a nil error.
C4_WriteFailure ==
    /\ failedAt # 0 => nwrites = failedAt
    /\ Done => /\ status = "returned"
               /\ failedAt # 0 => err = "EIO"
               /\ failedAt = 0 => err = "nil"

\* C5: a fault that is not a write failure (a panic of a custom-format method
\* or of reflect) is never turned into a normal return: the only error a call
\* returns is the error of a rejected write.
C5_FaultsPropagate == status = "returned" => err \in {"nil", "EIO"}

\* C6: every call runs to its end on every finite value graph: the
\* recursion never goes on until the stack is exhausted.
C6_Terminates == status # "overflow"

\* The writes made for the record v itself.
IsRecordLine(tok) == tok.t \in {"open", "field", "ellipsis", "close"}
RecordLines(o, v) == LET Mine(tok) == tok.v = v /\ IsRecordLine(tok) IN SelectSeq(o, Mine)
Visible(v) == LET Exp(j) == heap[v].exp[j] IN SelectSeq([j \in 1..Len(heap[v].kids) |-> j], Exp)
AnyHidden(v) == \E j \in 1..Len(heap[v].kids) : ~heap[v].exp[j]
FieldLines(v) == [k \in 1..Len(Visible(v)) |-> Tok("field", 1, Visible(v)[k], "", v)]
\* The claim: the braces collapse only for a record with no member at all.
RecordAsClaimed(v) ==
    <<Tok("open", 0, 0, "", v)>> \o FieldLines(v)
        \o (IF AnyHidden(v) THEN <<Tok("ellipsis", 1, 0, "", v)>> ELSE <<>>)
        \o <<Tok("close", IF Len(heap[v].kids) = 0 THEN NoIndent ELSE 0, 0, "", v)>>
\* The braces collapse for every record with no visible member.
RecordAsAmended(v) ==
    LET ind == IF Visible(v) = <<>> THEN NoIndent ELSE 0
    IN  <<Tok("open", 0, 0, "", v)>> \o FieldLines(v)
            \o (IF AnyHidden(v) THEN <<Tok("ellipsis", IF ind = NoIndent THEN NoIndent ELSE 1, 0, "", v)>>
                ELSE <<>>)
            \o <<Tok("close", ind, 0, "", v)>>
RecordRendered == api = "Fprint" /\ Succeeded /\ Kind(root) = "Struct" /\ ~HasMethod(root)

\* C7 as stated: Fprint writes the visible members of a record in the order
\* of declaration, one ellipsis line after them if any member is hidden, and
\* collapses the braces onto one line only if the record has no member.
C7_RecordAsClaimed == RecordRendered => RecordLines(out, root) = RecordAsClaimed(root)

\* C7 as amended: Fprint writes the visible members of a record in the order
\* of declaration and one ellipsis after them if any member is hidden; it
\* puts the ellipsis and the closing brace on the line of the opening brace
\* exactly when the record has no visible member.
C7_RecordAsAmended == RecordRendered => RecordLines(out, root) = RecordAsAmended(root)

\* A record with two hidden members and no visible one has been rendered on
\* one line.
C7_Witness ==
    /\ RecordRendered
    /\ Len(heap[root].kids) = 2 /\ Visible(root) = <<>>
    /\ out = <<Tok("open", 0, 0, "", root), Tok("ellipsis", NoIndent, 0, "", root),
               Tok("close", NoIndent, 0, "", root)>>

RECURSIVE Ascending(_)
Ascending(S) ==
    IF S = {} THEN <<>>
    ELSE LET m == CHOOSE x \in S : \A y \in S : x <= y
         IN  <<m>> \o Ascending(S \ {m})
RECURSIVE Entries(_, _)
Entries(v, ks) ==
    IF ks = <<>> THEN <<>>
    ELSE <<Tok("key", 1, Head(ks), "", v), Tok("int", 0, 0, "", 1 + Head(ks))>>
         \o Entries(v, Tail(ks))
MapAsClaimed(v) ==
    <<Tok("open", 0, 0, "", v)>>
        \o Entries(v, Ascending({heap[v].keys[i] : i \in DOMAIN heap[v].keys}))
        \o <<Tok("close", 0, 0, "", v)>>

\* C8: Fprint renders a map as its type name and an opening brace, one
\* "key: value" line per entry in ascending order of the keys, whatever the
\* order of insertion, and the closing brace.
C8_MapSorted ==
    (api = "Fprint" /\ Succeeded /\ Kind(root) = "Map" /\ Len(heap[root].keys) > 1)
        => out = MapAsClaimed(root)

\* C9: an absent value is rendered as nil and the call succeeds: the invalid
\* top-level value and every nil pointer or interface at any depth, as the
\* token nil by the text renderers and as one node labelled nil by Dot.
C9_AbsentIsNil ==
    /\ (Done /\ failedAt = 0 /\ root = 0) =>
          /\ Succeeded
          /\ out = IF InText THEN <<Tok("nil", 0, 0, "", 0)>>
                   ELSE DotText(<<NodeTok(0, "nil", 0)>>)
    /\ \A i \in 1..Len(out) :
          (Kind(out[i].v) = "Nil" /\ ~HasMethod(out[i].v)) =>
              \/ out[i].t = "nil"
              \/ IsNode(out[i]) /\ out[i].lab = "nil"

\* The values of the invocations that have marked their value.
Marked == {stack[k].v : k \in {j \in 1..Len(stack) : stack[j].dfr}}

\* C10: during a call of a text renderer the values marked in the path map
\* are exactly the values of the active invocations that passed the cycle
\* check; every enclosing invocation has marked its value; when the call has
\* ended, by returning or by the unwinding of a panic, nothing is marked; and
\* a second call on the same value writes what the first wrote.
C10_PathIsActiveSet ==
    InText =>
        /\ Active => {v \in Keys : path[v]} = Marked
        /\ status = "running" => \A k \in 1..(Len(stack) - 1) : stack[k].dfr /\ path[stack[k].v]
        /\ Done => \A v \in Keys : ~path[v]
        /\ (second /\ Succeeded) => out = prevOut

\* The second call on a cyclic value has ended like the first.
C10_Witness ==
    /\ InText /\ second /\ Succeeded /\ out = prevOut
    /\ \E i \in 1..Len(out) : out[i].t = "cycle"

\* The value whose node stands for v: a pointer or interface that is not nil
\* has no node of its own, unless its type has the method.
RECURSIVE Declared(_)
Declared(v) ==
    IF Kind(v) = "Ref" /\ ~HasMethod(v) THEN Declared(heap[v].kids[1]) ELSE v
\* The values in the order of their first visit, depth first, the members
\* of a record in the order of declaration without the hidden ones, the
\* elements of a sequence in the order of storage; acc holds the values
\* visited so far.
RECURSIVE FirstVisits(_, _), FirstVisitsAll(_, _, _)
FirstVisits(v, acc) ==
    LET d == Declared(v)
    IN  IF \E i \in 1..Len(acc) : acc[i] = d THEN acc
        ELSE IF HasMethod(d) \/ Kind(d) \notin {"Struct", "Seq"} THEN Append(acc, d)
        ELSE FirstVisitsAll(d, 1, Append(acc, d))
FirstVisitsAll(v, i, acc) ==
    IF i > Len(heap[v].kids) THEN acc
    ELSE FirstVisitsAll(v, i + 1,
             IF Kind(v) = "Struct" /\ ~heap[v].exp[i] THEN acc
             ELSE FirstVisits(heap[v].kids[i], acc))
NodeIds(o) == [i \in 1..Len(NodesIn(o)) |-> NodesIn(o)[i].x]
NodeValues(o) == [i \in 1..Len(NodesIn(o)) |-> NodesIn(o)[i].v]

\* C11: in the output of a call of Dot the k node declarations carry the
\* ids 0, 1, ..., k-1 in the order in which they are written, so no id is
\* declared twice and none is skipped, also after children that were found
\* in the seen map or were hidden members; after a successful call the
\* values declared are the values of the graph in first-visit, depth-first
\* order; and every edge has as source the id of the node declared for the
\* parent and as target the id of the node declared for the child's value.
C11_SequentialIds ==
    api = "Dot" =>
        /\ NodeIds(out) = [i \in 1..Len(NodesIn(out)) |-> i - 1]
        /\ Succeeded => NodeValues(out) = FirstVisits(root, <<>>)
        /\ \A i \in 1..Len(out) :
              IsArc(out[i]) =>
                  /\ \E j \in 1..(i - 1) :
                        IsNode(out[j]) /\ out[j].v = out[i].v /\ out[j].x = out[i].x
                  /\ \E j \in 1..(i - 1) :
                        /\ IsNode(out[j])
                        /\ out[j].v = Declared(heap[out[i].v].kids[out[i].z])
                        /\ out[j].x = out[i].y

\* A record whose first member points back to the record itself (an edge
\* from node 0 to node 0, no declaration) and whose second member leads to
\* values not seen before, declared under the ids 1 and 2.
C11_Witness ==
    /\ api = "Dot" /\ Succeeded
    /\ NodeIds(out) = <<0, 1, 2>>
    /\ \E i, j \in 1..Len(out) :
          /\ i < j
          /\ IsArc(out[i]) /\ out[i].x = 0 /\ out[i].y = 0 /\ Kind(out[i].v) = "Struct"
          /\ IsNode(out[j]) /\ out[j].x = 1
====
